---------------------------- MODULE Spec2Model ----------------------------
(***************************************************************************)
(* Model of rewrite-all-local.py: the legacy-description classifier, the   *)
(* value normalizers, the specification extractor and the row loop of      *)
(* main.                                                                   *)
(*                                                                         *)
(* Text is modelled at two granularities.  A description's markup is a     *)
(* sequence of tokens (a tag, a whitespace character, or a run of word     *)
(* characters), each with its real character length.  The raw attribute    *)
(* values that the normalizers parse are sequences of single characters.   *)
(* A Python Optional is a sequence of length 0 (None) or 1 (the value).    *)
(***************************************************************************)
EXTENDS Integers, Sequences, FiniteSets, TLC

VARIABLES
    p,              \* classifier / extractor: the product record
    outcome,        \* classifier: should_process_product's return value
    value,          \* parse_listish_string: its argument
    first_item,     \* parse_listish_string: its return value
    dimensions_raw, \* parse_dimensions_list_dimension: its argument
    dims,           \* parse_dimensions_list_dimension: its return value
    existing_editor_note, \* build_payload_from_product: its second argument
    payload,        \* build_payload_from_product: its return value
    args,           \* main: the parsed command line
    catalog,        \* main: what the catalog and the webhook answer per row
    df,             \* main: the table (one record per row)
    idx,            \* main: the loop index
    pc,             \* main: position in the loop body
    generated_count,\* main: rows generated so far
    saved,          \* main: the last table written to the output file
    calls,          \* main: per row, catalog fetches and webhook calls made
    exc,            \* main: the exception caught by the except clause
    error           \* main: the exception that left main, if any

vars == <<p, outcome, value, first_item, dimensions_raw, dims,
          existing_editor_note, payload,
          args, catalog, df, idx, pc, generated_count, saved, calls, exc, error>>

mainVars == <<args, catalog, df, idx, pc, generated_count, saved, calls, exc, error>>

\* The value of a variable that a specification does not use.
Idle == <<>>

\* Python's None / Optional.
None == <<>>
Some(x) == <<x>>
IsNone(o) == o = <<>>
Val(o) == o[1]


--------------------------------------------------------------------------
(* Markup tokens *)

TagTokens == {"<p>", "</p>", "<div class='status'>"}
SpaceTokens == {" ", "\n"}
WordTokens == {"a", "bag", "style", "Timeless", "allure", "symphony", "status"}

IsTag(tok) == tok \in TagTokens
IsSpace(tok) == tok \in SpaceTokens

\* Number of characters of a token.
CharLen(tok) ==
    CASE tok = "<p>" -> 3
      [] tok = "</p>" -> 4
      [] tok = "<div class='status'>" -> 20
      [] tok = " " -> 1
      [] tok = "\n" -> 1
      [] tok = "a" -> 1
      [] tok = "bag" -> 3
      [] tok = "style" -> 5
      [] tok = "Timeless" -> 8
      [] tok = "allure" -> 6
      [] tok = "symphony" -> 8
      [] tok = "status" -> 6

\* str.lower() of one token.
LowerTok(tok) == IF tok = "Timeless" THEN "timeless" ELSE tok

\* The lower-case words that occur as substrings of a lower-case token.
SubWords(tok) == IF tok = "<div class='status'>" THEN {"div", "class", "status"} ELSE {tok}

\* len(html): the character count of a token sequence.
RECURSIVE SumLen(_, _, _)
SumLen(s, lo, hi) ==
    IF lo > hi THEN 0
    ELSE IF lo = hi THEN CharLen(s[lo])
    ELSE LET mid == (lo + hi) \div 2
         IN SumLen(s, lo, mid) + SumLen(s, mid + 1, hi)

len(s) == SumLen(s, 1, Len(s))


--------------------------------------------------------------------------
(* Text normalizer *)

Drop == "<drop>"

\* BeautifulSoup(html).get_text(" ", strip=True): the text nodes are the runs
\* between tags, joined by " ".  The per-node strip only removes whitespace
\* that touches a node boundary, where the join puts a " " anyway; the
\* whitespace collapse of strip_html_to_text makes the two indistinguishable.
get_text(html) == [i \in 1..Len(html) |-> IF IsTag(html[i]) THEN " " ELSE html[i]]

\* re.sub(r"\s+", " ", text): every run of whitespace becomes one " ".
collapse_ws(text) ==
    LET marked == [i \in 1..Len(text) |->
                     IF ~IsSpace(text[i]) THEN text[i]
                     ELSE IF i > 1 /\ IsSpace(text[i - 1]) THEN Drop
                     ELSE " "]
    IN SelectSeq(marked, LAMBDA t : t # Drop)

\* str.strip() of a text whose whitespace runs are already single characters.
strip1(text) ==
    LET lo == IF Len(text) > 0 /\ IsSpace(text[1]) THEN 2 ELSE 1
        hi == IF Len(text) > 0 /\ IsSpace(text[Len(text)]) THEN Len(text) - 1 ELSE Len(text)
    IN SubSeq(text, lo, hi)

strip_html_to_text(html) ==
    IF html = <<>> THEN <<>>
    ELSE strip1(collapse_ws(get_text(html)))

\* len([w for w in re.split(r"\s+", text.strip()) if w]): adjacent word tokens
\* with no whitespace between them are one word.
word_count(text) ==
    IF text = <<>> THEN 0
    ELSE Cardinality({i \in 1..Len(text) :
            /\ ~IsSpace(text[i])
            /\ (i = 1 \/ IsSpace(text[i - 1]))})

\* The phrase dictionary as Python builds it: a missing comma concatenates
\* "symphony" "indulge", "ellegance" "unparalleled" and
\* "craftsmanship" "sophisticated" into single entries.
AI_PHRASES ==
    << <<"timeless">>, <<"must-have">>, <<"embodies">>, <<"symphonyindulge">>,
       <<"essence">>, <<"allure">>, <<"prestige">>, <<"epitomizes">>,
       <<"elleganceunparalleled">>, <<"exquisite">>,
       <<"craftsmanshipsophisticated">>,
       <<"elevate", " ", "your", " ", "style">>, <<"ultimate">>,
       <<"expression">>, <<"embody">>, <<"aesthetic">>,
       <<"refined", " ", "taste">>, <<"experience">>, <<"luxurious">>,
       <<"prestigious">>, <<"status">> >>

EDITORS_NOTE_MAX_WORDS == 50
MAX_CHAR_COUNT == 1200
MAX_WORD_COUNT == 180
MIN_AI_PHRASES == 1

\* `phrase in s` for a lower-cased token sequence s.
PhraseIn(phrase, s) ==
    \E i \in 1..(Len(s) - Len(phrase) + 1) :
        \A j \in 1..Len(phrase) : phrase[j] \in SubWords(s[i + j - 1])

count_ai_phrases(html) ==
    LET s == [i \in 1..Len(html) |-> LowerTok(html[i])]
    IN Cardinality({k \in 1..Len(AI_PHRASES) : PhraseIn(AI_PHRASES[k], s)})

--------------------------------------------------------------------------
(* Legacy-content classifier *)

Result(should_process, note, msg, metrics) ==
    [should_process |-> should_process, existing_editor_note |-> note,
     reason |-> [msg |-> msg, metrics |-> metrics]]

\* (x or {}).get("value") for a metafield x.
MetaValue(x) == IF IsNone(x) THEN None ELSE Val(x).value

\* Python truthiness of an Optional[str].
Truthy(o) == ~IsNone(o) /\ Val(o) # <<>>

\* `o or ""`
OrEmpty(o) == IF Truthy(o) THEN Val(o) ELSE <<>>

\* The rule order changed: the description is looked at before the bag style.
should_process_product_desc_first(q) ==
    LET desc_html == OrEmpty(q.descriptionHtml)
    IN IF desc_html = <<>> THEN Result(TRUE, None, "PROCESS: description empty", <<>>)
       ELSE Result(FALSE, None, "SKIPPED: Bag Style is empty", <<>>)

\* The editor note is the stripped text and not the markup.
should_process_product_note_text(q) ==
    LET desc_html == OrEmpty(q.descriptionHtml)
        text == strip_html_to_text(desc_html)
        wc == word_count(text)
    IN IF ~Truthy(MetaValue(q.bag_style))
       THEN Result(FALSE, None, "SKIPPED: Bag Style is empty", <<>>)
       ELSE IF 0 < wc /\ wc <= EDITORS_NOTE_MAX_WORDS
       THEN Result(TRUE, Some(text), "PROCESS: editor note detected", <<wc>>)
       ELSE Result(FALSE, None, "SKIPPED: has description", <<>>)

\* The length thresholds are taken inclusively.
should_process_product_inclusive(q) ==
    LET bag_style_val == MetaValue(q.bag_style)
        desc_html == OrEmpty(q.descriptionHtml)
        char_count == len(desc_html)
        wc == word_count(strip_html_to_text(desc_html))
        ai_phrase_count == count_ai_phrases(desc_html)
    IN IF ~Truthy(bag_style_val)
       THEN Result(FALSE, None, "SKIPPED: Bag Style is empty", <<>>)
       ELSE IF desc_html = <<>>
       THEN Result(TRUE, None, "PROCESS: description empty", <<>>)
       ELSE IF 0 < wc /\ wc <= EDITORS_NOTE_MAX_WORDS
       THEN Result(TRUE, Some(desc_html), "PROCESS: editor note detected", <<wc>>)
       ELSE IF char_count >= MAX_CHAR_COUNT /\ wc >= MAX_WORD_COUNT
               /\ ai_phrase_count >= MIN_AI_PHRASES
       THEN Result(TRUE, None, "PROCESS: legacy AI detected",
                   <<char_count, wc, ai_phrase_count>>)
       ELSE Result(FALSE, None, "SKIPPED: has description",
                   <<char_count, wc, ai_phrase_count>>)

should_process_product(q) ==
    LET bag_style_val == MetaValue(q.bag_style)
        desc_html == OrEmpty(q.descriptionHtml)
        char_count == len(desc_html)
        text == strip_html_to_text(desc_html)
        wc == word_count(text)
        ai_phrase_count == count_ai_phrases(desc_html)
        is_legacy_ai == /\ char_count > MAX_CHAR_COUNT
                        /\ wc > MAX_WORD_COUNT
                        /\ ai_phrase_count >= MIN_AI_PHRASES
    IN IF ~Truthy(bag_style_val)
       THEN Result(FALSE, None, "SKIPPED: Bag Style is empty", <<>>)
       ELSE IF desc_html = <<>>
       THEN Result(TRUE, None, "PROCESS: description empty", <<>>)
       ELSE IF 0 < wc /\ wc <= EDITORS_NOTE_MAX_WORDS
       THEN Result(TRUE, Some(desc_html), "PROCESS: editor note detected", <<wc>>)
       ELSE IF is_legacy_ai
       THEN Result(TRUE, None, "PROCESS: legacy AI detected",
                   <<char_count, wc, ai_phrase_count>>)
       ELSE Result(FALSE, None, "SKIPPED: has description",
                   <<char_count, wc, ai_phrase_count>>)

\* Inputs of the classifier.
MaxShortLen == 2
MaxTailLen == 1

DescTokens == TagTokens \cup SpaceTokens \cup WordTokens

SeqsUpTo(S, n) == UNION {[1..k -> S] : k \in 0..n}

Repeat(pat, n) == [i \in 1..(n * Len(pat)) |-> pat[((i - 1) % Len(pat)) + 1]]

\* Long bodies that sit at the thresholds of the classifier.
Bodies ==
    { Repeat(<<"bag", " ">>, 50),                    \* 50 words, 200 chars
      Repeat(<<"style", " ">>, 199),                 \* 199 words, 1194 chars
      Repeat(<<"style", " ">>, 200),                 \* 200 words, 1200 chars
      Repeat(<<"status", " ">>, 180),                \* 180 words, 1260 chars
      Repeat(<<"<p>", "status", "</p>">>, 100),      \* 100 words, 1300 chars
      Repeat(<<"<div class='status'>">>, 61) }       \* no words, 1220 chars

Descriptions ==
    SeqsUpTo(DescTokens, MaxShortLen)
    \cup {body \o tail : body \in Bodies, tail \in SeqsUpTo(DescTokens, MaxTailLen)}

Str_Birkin == <<"B", "i", "r", "k", "i", "n">>

BagStyleFields ==
    { None, Some([value |-> None]), Some([value |-> Some(<<>>)]),
      Some([value |-> Some(Str_Birkin)]), Some([value |-> Some(<<"[", "]">>)]) }

ClassifierInputs ==
    [bag_style : BagStyleFields,
     descriptionHtml : {None} \cup {Some(d) : d \in Descriptions}]

InitClassifier ==
    /\ p \in ClassifierInputs
    /\ outcome = None
    /\ value = Idle /\ first_item = Idle /\ dimensions_raw = Idle /\ dims = Idle
    /\ existing_editor_note = Idle /\ payload = Idle
    /\ args = Idle /\ catalog = Idle /\ df = Idle /\ idx = 0 /\ pc = "idle"
    /\ generated_count = 0 /\ saved = Idle /\ calls = Idle /\ exc = Idle /\ error = Idle

Classify ==
    /\ outcome = None
    /\ outcome' = Some(should_process_product(p))
    /\ UNCHANGED <<p, value, first_item, dimensions_raw, dims, existing_editor_note, payload, mainVars>>

NextClassifier == Classify

SpecClassifier == InitClassifier /\ [][NextClassifier]_vars

\* The metrics of the classified product, as the claims name them.
DescOf(q) == OrEmpty(q.descriptionHtml)
StrippedWords(q) == word_count(strip_html_to_text(DescOf(q)))
BagStyleEmpty(q) ==
    \/ IsNone(q.bag_style)
    \/ IsNone(Val(q.bag_style).value)
    \/ Val(Val(q.bag_style).value) = <<>>

\* C1: a product whose bag-style attribute is absent or empty is skipped with
\* no preserved note, whatever its description.
C1_EmptyBagStyleSkipped ==
    (~IsNone(outcome) /\ BagStyleEmpty(p)) =>
        /\ Val(outcome).should_process = FALSE
        /\ Val(outcome).existing_editor_note = None

C1_Witness ==
    /\ ~IsNone(outcome) /\ BagStyleEmpty(p)
    /\ len(DescOf(p)) > 1200 /\ StrippedWords(p) > 180 /\ count_ai_phrases(DescOf(p)) >= 1
    /\ Val(outcome).should_process = FALSE

\* C2: with a non-empty bag style and a stripped word count in [1,50] the
\* product is processed and the preserved note is the original markup.
C2_EditorNoteIsOriginalMarkup ==
    (~IsNone(outcome) /\ ~BagStyleEmpty(p)
        /\ StrippedWords(p) >= 1 /\ StrippedWords(p) <= 50) =>
        /\ Val(outcome).should_process = TRUE
        /\ Val(outcome).existing_editor_note = p.descriptionHtml

C2_Witness ==
    /\ ~IsNone(outcome) /\ ~BagStyleEmpty(p)
    /\ StrippedWords(p) = 50
    /\ strip_html_to_text(DescOf(p)) # DescOf(p)
    /\ count_ai_phrases(DescOf(p)) >= 1
    /\ Val(outcome).existing_editor_note = Some(DescOf(p))

\* C3: with a non-empty bag style and a non-empty description whose stripped
\* word count is not in [1,50], the product is processed exactly when the
\* markup has more than 1200 characters, more than 180 words and at least one
\* signal phrase; no note is preserved either way.
C3_LegacyRule ==
    (~IsNone(outcome) /\ ~BagStyleEmpty(p) /\ DescOf(p) # <<>>
        /\ ~(StrippedWords(p) >= 1 /\ StrippedWords(p) <= 50)) =>
        /\ Val(outcome).should_process =
              (/\ len(DescOf(p)) > 1200
               /\ StrippedWords(p) > 180
               /\ count_ai_phrases(DescOf(p)) >= 1)
        /\ Val(outcome).existing_editor_note = None

C3_Witness ==
    /\ ~IsNone(outcome) /\ ~BagStyleEmpty(p)
    /\ len(DescOf(p)) = 1266 /\ StrippedWords(p) = 181
    /\ count_ai_phrases(DescOf(p)) = 1
    /\ Val(outcome).should_process = TRUE
    /\ Val(outcome).existing_editor_note = None

--------------------------------------------------------------------------
(* Character strings: str.strip, str.lower, str.replace, str.split *)

WsChars == {" ", "\n"}

LowerChar(c) ==
    CASE c = "N" -> "n"
      [] c = "A" -> "a"
      [] c = "C" -> "c"
      [] c = "M" -> "m"
      [] c = "I" -> "i"
      [] OTHER -> c

lower(s) == [i \in 1..Len(s) |-> LowerChar(s[i])]

RECURSIVE lstrip(_)
lstrip(s) == IF s # <<>> /\ Head(s) \in WsChars THEN lstrip(Tail(s)) ELSE s

RECURSIVE rstrip(_)
rstrip(s) ==
    IF s # <<>> /\ s[Len(s)] \in WsChars THEN rstrip(SubSeq(s, 1, Len(s) - 1)) ELSE s

strip(s) == rstrip(lstrip(s))

startswith(s, pre) == Len(s) >= Len(pre) /\ SubSeq(s, 1, Len(pre)) = pre
endswith(s, suf) == Len(s) >= Len(suf) /\ SubSeq(s, Len(s) - Len(suf) + 1, Len(s)) = suf

\* s.replace(old, new), leftmost non-overlapping occurrences; old is non-empty.
RECURSIVE replace(_, _, _)
replace(s, old, new) ==
    IF s = <<>> THEN <<>>
    ELSE IF startswith(s, old) THEN new \o replace(SubSeq(s, Len(old) + 1, Len(s)), old, new)
    ELSE <<Head(s)>> \o replace(Tail(s), old, new)

\* s.split(sep) for a one-character separator: the list of pieces.
RECURSIVE SplitFrom(_, _, _, _)
SplitFrom(s, sep, i, cur) ==
    IF i > Len(s) THEN <<cur>>
    ELSE IF s[i] = sep THEN <<cur>> \o SplitFrom(s, sep, i + 1, <<>>)
    ELSE SplitFrom(s, sep, i + 1, Append(cur, s[i]))

split(s, sep) == SplitFrom(s, sep, 1, <<>>)

Str_nan == <<"n", "a", "n">>

------------------------------------------------------------------------------------------------------------
(* Numbers.  A float is the exact decimal n/d (d a power of ten) or one of  *)
(* the special values; exponent notation is outside the modelled inputs.   *)

Digits == {"0", "1", "2", "3", "4", "5", "6", "7", "8", "9"}

DigitVal(c) ==
    CASE c = "0" -> 0 [] c = "1" -> 1 [] c = "2" -> 2 [] c = "3" -> 3
      [] c = "4" -> 4 [] c = "5" -> 5 [] c = "6" -> 6 [] c = "7" -> 7
      [] c = "8" -> 8 [] c = "9" -> 9

DigitChar(k) == <<"0", "1", "2", "3", "4", "5", "6", "7", "8", "9">>[k + 1]

RECURSIVE TenPow(_)
TenPow(k) == IF k = 0 THEN 1 ELSE 10 * TenPow(k - 1)

RECURSIVE DigitsToInt(_)
DigitsToInt(ds) ==
    IF ds = <<>> THEN 0
    ELSE 10 * DigitsToInt(SubSeq(ds, 1, Len(ds) - 1)) + DigitVal(ds[Len(ds)])

RECURSIVE NatToChars(_)
NatToChars(k) ==
    IF k < 10 THEN <<DigitChar(k)>> ELSE Append(NatToChars(k \div 10), DigitChar(k % 10))

\* str(k) of an int.
IntToChars(k) == IF k < 0 THEN <<"-">> \o NatToChars(0 - k) ELSE NatToChars(k)

Float(n, d) == [n |-> n, d |-> d, special |-> "finite"]
FloatNaN == [n |-> 0, d |-> 1, special |-> "nan"]
FloatInf(neg) == [n |-> 0, d |-> 1, special |-> IF neg THEN "-inf" ELSE "inf"]

\* First position at or after i that holds no digit.
RECURSIVE DigitsEnd(_, _)
DigitsEnd(s, i) == IF i <= Len(s) /\ s[i] \in Digits THEN DigitsEnd(s, i + 1) ELSE i

\* int(x) of a float: truncation toward zero; nan and the infinities raise.
int_of_float(f) ==
    IF f.special # "finite" THEN None
    ELSE IF f.n >= 0 THEN Some(f.n \div f.d)
    ELSE Some(0 - ((0 - f.n) \div f.d))

\* float(s) of a str: optional sign, then inf / infinity / nan, or digits
\* with an optional fraction; None stands for ValueError.
float_of_str(chars) ==
    LET t == strip(chars)
        signed == t # <<>> /\ t[1] \in {"-", "+"}
        neg == t # <<>> /\ t[1] = "-"
        body == IF signed THEN Tail(t) ELSE t
        word == lower(body)
        k == DigitsEnd(body, 1)
        hasDot == k <= Len(body) /\ body[k] = "."
        m == IF hasDot THEN DigitsEnd(body, k + 1) ELSE k
        intDigits == SubSeq(body, 1, k - 1)
        fracDigits == IF hasDot THEN SubSeq(body, k + 1, m - 1) ELSE <<>>
        mag == DigitsToInt(intDigits \o fracDigits)
    IN IF word = Str_nan THEN Some(FloatNaN)
       ELSE IF word \in { <<"i", "n", "f">>, <<"i", "n", "f", "i", "n", "i", "t", "y">> }
       THEN Some(FloatInf(neg))
       ELSE IF m = Len(body) + 1 /\ Len(intDigits) + Len(fracDigits) > 0
       THEN Some(Float(IF neg THEN 0 - mag ELSE mag, TenPow(Len(fracDigits))))
       ELSE None

--------------------------------------------------------------------------
(* json.loads on character strings *)

JsonWs == {" ", "\n"}
HexDigits == Digits \cup {"a", "b", "c", "d", "e", "f"}

JStr(chars) == [t |-> "str", v |-> chars]
JInt(k) == [t |-> "int", v |-> k]
JFloat(f) == [t |-> "float", v |-> f]
JBool(b) == [t |-> "bool", v |-> b]
JNull == [t |-> "null", v |-> <<>>]
JList(elems) == [t |-> "list", v |-> elems]
JDict(members) == [t |-> "dict", v |-> members]

Parsed(val, next) == [ok |-> TRUE, val |-> val, next |-> next]
ParseError == [ok |-> FALSE, val |-> JNull, next |-> 0]

RECURSIVE SkipWs(_, _)
SkipWs(s, i) == IF i <= Len(s) /\ s[i] \in JsonWs THEN SkipWs(s, i + 1) ELSE i

IsAt(s, i, word) == i + Len(word) - 1 <= Len(s) /\ SubSeq(s, i, i + Len(word) - 1) = word

\* The body of a string literal from position i (after the opening quote).
RECURSIVE ParseStringBody(_, _, _)
ParseStringBody(s, i, acc) ==
    IF i > Len(s) THEN ParseError
    ELSE IF s[i] = "\"" THEN Parsed(JStr(acc), i + 1)
    ELSE IF s[i] = "\n" THEN ParseError
    ELSE IF s[i] = "\\" THEN
        IF i + 1 > Len(s) THEN ParseError
        ELSE IF s[i + 1] = "\"" THEN ParseStringBody(s, i + 2, Append(acc, "\""))
        ELSE IF s[i + 1] = "\\" THEN ParseStringBody(s, i + 2, Append(acc, "\\"))
        ELSE IF s[i + 1] = "n" THEN ParseStringBody(s, i + 2, Append(acc, "\n"))
        ELSE IF s[i + 1] = "u" /\ i + 5 <= Len(s)
                /\ \A k \in (i + 2)..(i + 5) : s[k] \in HexDigits
        THEN ParseStringBody(s, i + 6, Append(acc, "<\\uXXXX>"))
        ELSE ParseError
    ELSE ParseStringBody(s, i + 1, Append(acc, s[i]))

\* A number at position i: -?(0|[1-9][0-9]*)(\.[0-9]+)?
ParseNumber(s, i) ==
    LET neg == i <= Len(s) /\ s[i] = "-"
        j == IF neg THEN i + 1 ELSE i
        k == IF j <= Len(s) /\ s[j] = "0" THEN j + 1 ELSE DigitsEnd(s, j)
        m == IF k + 1 <= Len(s) /\ s[k] = "." THEN DigitsEnd(s, k + 1) ELSE k
        hasFrac == m > k + 1
        intDigits == SubSeq(s, j, k - 1)
        fracDigits == IF hasFrac THEN SubSeq(s, k + 1, m - 1) ELSE <<>>
        mag == DigitsToInt(intDigits \o fracDigits)
        n == IF neg THEN 0 - mag ELSE mag
    IN IF k = j THEN ParseError
       ELSE IF hasFrac THEN Parsed(JFloat(Float(n, TenPow(Len(fracDigits)))), m)
       ELSE Parsed(JInt(n), k)

RECURSIVE ParseValue(_, _)
RECURSIVE ParseElements(_, _, _)
RECURSIVE ParseMembers(_, _, _)

\* The elements of an array from position i (after "[" or ","), up to "]".
ParseElements(s, i, acc) ==
    LET After(e, j) ==
            IF ~e.ok \/ j > Len(s) THEN ParseError
            ELSE IF s[j] = "," THEN ParseElements(s, j + 1, Append(acc, e.val))
            ELSE IF s[j] = "]" THEN Parsed(JList(Append(acc, e.val)), j + 1)
            ELSE ParseError
        Element(e) == After(e, SkipWs(s, e.next))
    IN Element(ParseValue(s, SkipWs(s, i)))

\* The members of an object from position i (after "{" or ","), up to "}".
ParseMembers(s, i, acc) ==
    LET After(key, e, j) ==
            IF ~e.ok \/ j > Len(s) THEN ParseError
            ELSE IF s[j] = ","
            THEN ParseMembers(s, j + 1, Append(acc, [key |-> key.val.v, val |-> e.val]))
            ELSE IF s[j] = "}"
            THEN Parsed(JDict(Append(acc, [key |-> key.val.v, val |-> e.val])), j + 1)
            ELSE ParseError
        Member_value(key, e) == After(key, e, SkipWs(s, e.next))
        Colon(key, ci) ==
            Member_value(key, IF key.ok /\ ci <= Len(s) /\ s[ci] = ":"
                              THEN ParseValue(s, SkipWs(s, ci + 1))
                              ELSE ParseError)
        Key(key) == Colon(key, SkipWs(s, key.next))
        Start(ki) == Key(IF ki <= Len(s) /\ s[ki] = "\"" THEN ParseStringBody(s, ki + 1, <<>>)
                         ELSE ParseError)
    IN Start(SkipWs(s, i))

ParseValue(s, i) ==
    IF i > Len(s) THEN ParseError
    ELSE IF s[i] = "\"" THEN ParseStringBody(s, i + 1, <<>>)
    ELSE IF s[i] = "[" THEN
        (LET Open(j) == IF j <= Len(s) /\ s[j] = "]" THEN Parsed(JList(<<>>), j + 1)
                        ELSE ParseElements(s, i + 1, <<>>)
         IN Open(SkipWs(s, i + 1)))
    ELSE IF s[i] = "{" THEN
        (LET Open(j) == IF j <= Len(s) /\ s[j] = "}" THEN Parsed(JDict(<<>>), j + 1)
                        ELSE ParseMembers(s, i + 1, <<>>)
         IN Open(SkipWs(s, i + 1)))
    ELSE IF IsAt(s, i, <<"n", "u", "l", "l">>) THEN Parsed(JNull, i + 4)
    ELSE IF IsAt(s, i, <<"t", "r", "u", "e">>) THEN Parsed(JBool(TRUE), i + 4)
    ELSE IF IsAt(s, i, <<"f", "a", "l", "s", "e">>) THEN Parsed(JBool(FALSE), i + 5)
    ELSE IF IsAt(s, i, <<"N", "a", "N">>) THEN Parsed(JFloat(FloatNaN), i + 3)
    ELSE IF s[i] \in Digits \cup {"-"} THEN ParseNumber(s, i)
    ELSE ParseError

\* json.loads(s): the decoded value, or ok = FALSE for a JSONDecodeError.
json_loads(s) ==
    LET Decoded(r) ==
            IF r.ok /\ SkipWs(s, r.next) = Len(s) + 1
            THEN [ok |-> TRUE, val |-> r.val]
            ELSE [ok |-> FALSE, val |-> JNull]
    IN Decoded(ParseValue(s, SkipWs(s, 1)))

\* d.get(key) of a decoded object: the last member of that name, or None.
dict_get(d, key) ==
    LET hits == {i \in 1..Len(d.v) : d.v[i].key = key}
    IN IF hits = {} THEN JNull
       ELSE d.v[CHOOSE i \in hits : \A k \in hits : k <= i].val

\* str(x) of a decoded string or int.
str_of(j) == IF j.t = "int" THEN IntToChars(j.v) ELSE j.v

----------------------------------------
(* parse_listish_string *)

RemoveChars(s, cs) == SelectSeq(s, LAMBDA c : c \notin cs)

\* The except branch: strip brackets, quotes and backslashes, split on commas.
listish_fallback(v) ==
    LET First(parts) == IF parts # <<>> THEN Some(parts[1]) ELSE None
        Parts(pieces) == First(SelectSeq([i \in 1..Len(pieces) |-> strip(pieces[i])],
                                         LAMBDA x : x # <<>>))
    IN Parts(split(strip(RemoveChars(v, {"[", "]", "\"", "\\"})), ","))

\* The empty / not-a-number check is left out.
parse_listish_string_keep_nan(val) ==
    LET Loaded(v, parsed) ==
            IF ~parsed.ok THEN listish_fallback(v)
            ELSE IF parsed.val.t = "list" /\ parsed.val.v # <<>>
            THEN (IF parsed.val.v[1].t # "null"
                  THEN Some(strip(str_of(parsed.val.v[1])))
                  ELSE None)
            ELSE Some(v)
        Stripped(v) ==
            IF startswith(v, <<"[">>) /\ endswith(v, <<"]">>)
            THEN Loaded(v, json_loads(v))
            ELSE Some(v)
    IN IF IsNone(val) THEN None ELSE Stripped(strip(Val(val)))

parse_listish_string(val) ==
    LET Loaded(v, parsed) ==
            IF ~parsed.ok THEN listish_fallback(v)
            ELSE IF parsed.val.t = "list" /\ parsed.val.v # <<>>
            THEN (IF parsed.val.v[1].t # "null"
                  THEN Some(strip(str_of(parsed.val.v[1])))
                  ELSE None)
            ELSE Some(v)
        Stripped(v) ==
            IF v = <<>> \/ lower(v) = Str_nan THEN None
            ELSE IF startswith(v, <<"[">>) /\ endswith(v, <<"]">>)
            THEN Loaded(v, json_loads(v))
            ELSE Some(v)
    IN IF IsNone(val) THEN None ELSE Stripped(strip(Val(val)))

MaxMidLen == 4

MidChars == {"\"", ",", " ", "a", "1", "n", "u", "l", "\\"}

PlainValues ==
    { <<>>, <<" ">>, Str_nan, <<"N", "a", "N">>, <<" ", "n", "a", "n", " ">>,
      <<"a">>, <<" ", "a", " ">>, <<"a", ",", "a">>, <<"[">>, <<"]">>,
      <<"[", "a">>, <<"a", "]">> }

ListishValues ==
    {None}
    \cup {Some(v) : v \in PlainValues}
    \cup {Some(<<"[">> \o mid \o <<"]">>) : mid \in SeqsUpTo(MidChars, MaxMidLen)}
    \cup {Some(<<" ", "[">> \o mid \o <<"]", "\n">>) : mid \in SeqsUpTo(MidChars, 1)}

InitListish ==
    /\ value \in ListishValues
    /\ first_item = Idle
    /\ p = Idle /\ outcome = Idle /\ dimensions_raw = Idle /\ dims = Idle
    /\ existing_editor_note = Idle /\ payload = Idle
    /\ args = Idle /\ catalog = Idle /\ df = Idle /\ idx = 0 /\ pc = "idle"
    /\ generated_count = 0 /\ saved = Idle /\ calls = Idle /\ exc = Idle /\ error = Idle

ParseListish ==
    /\ first_item = Idle
    /\ first_item' = <<parse_listish_string(value)>>
    /\ UNCHANGED <<value, p, outcome, dimensions_raw, dims, existing_editor_note, payload, mainVars>>

NextListish == ParseListish

SpecListish == InitListish /\ [][NextListish]_vars

\* The input, trimmed, is bracket-delimited and decodes as a list.
DecodesAsList(val) ==
    /\ ~IsNone(val)
    /\ startswith(strip(Val(val)), <<"[">>) /\ endswith(strip(Val(val)), <<"]">>)
    /\ json_loads(strip(Val(val))).ok
    /\ json_loads(strip(Val(val))).val.t = "list"

DecodedList(val) == json_loads(strip(Val(val))).val.v

\* C4: for a bracket-delimited input that decodes as a list the result is the
\* first element, stringified and trimmed, or null when the list is empty or
\* its first element is null; it is never the bracketed input text.
C4_FirstOfDecodedList ==
    (first_item # Idle /\ DecodesAsList(value)) =>
        /\ first_item[1] =
              (IF DecodedList(value) = <<>> \/ DecodedList(value)[1].t = "null"
               THEN None
               ELSE Some(strip(str_of(DecodedList(value)[1]))))
        /\ first_item[1] # Some(strip(Val(value)))

--------------------------------------------------------------------------
(* parse_dimensions_list_dimension *)

Str_cm == <<"c", "m">>
Str_centimeters == <<"c", "e", "n", "t", "i", "m", "e", "t", "e", "r", "s">>
Str_centimetres == <<"c", "e", "n", "t", "i", "m", "e", "t", "r", "e", "s">>
Str_value == <<"v", "a", "l", "u", "e">>
Str_unit == <<"u", "n", "i", "t">>

\* float(x) of a decoded JSON value; None stands for ValueError / TypeError.
float_of(j) ==
    CASE j.t = "str" -> float_of_str(j.v)
      [] j.t = "int" -> Some(Float(j.v, 1))
      [] j.t = "float" -> Some(j.v)
      [] j.t = "bool" -> Some(Float(IF j.v THEN 1 ELSE 0, 1))
      [] OTHER -> None

\* Python truthiness of a decoded JSON value.
JTruthy(j) ==
    CASE j.t = "null" -> FALSE
      [] j.t = "bool" -> j.v
      [] j.t = "int" -> j.v # 0
      [] j.t = "float" -> j.v.special # "finite" \/ j.v.n # 0
      [] OTHER -> j.v # <<>>

\* try: int(float(val)) except: try: float(val) except: val
coerce_value(val) ==
    LET Coerced(f) ==
            IF ~IsNone(f) /\ ~IsNone(int_of_float(Val(f)))
            THEN JInt(Val(int_of_float(Val(f))))
            ELSE IF ~IsNone(f) THEN JFloat(Val(f))
            ELSE val
    IN Coerced(float_of(val))

\* (unit or "").lower().replace("centimeters", "cm").replace("centimetres", "cm")
normalize_unit(u) ==
    replace(replace(lower(u), Str_centimeters, Str_cm), Str_centimetres, Str_cm)

DimsList(out) == Some([t |-> "list", v |-> out])
DimsRaw(s) == Some([t |-> "str", v |-> s])

IsDict(j) == j.t = "dict"

parse_dimensions_list_dimension(raw) ==
    LET \* .lower() of a truthy unit that is no str raises AttributeError
        raises(unit) == JTruthy(unit) /\ unit.t # "str"
        entry(val, unit) ==
            [value |-> coerce_value(val),
             unit |-> IF JTruthy(unit) THEN normalize_unit(unit.v) ELSE <<>>]
        Out(s, out) == IF out # <<>> THEN DimsList(out) ELSE DimsRaw(s)
        Dicts(s, elems) ==
            IF \E i \in 1..Len(elems) : raises(dict_get(elems[i], Str_unit))
            THEN DimsRaw(s)
            ELSE Out(s, [i \in 1..Len(elems) |->
                           entry(dict_get(elems[i], Str_value), dict_get(elems[i], Str_unit))])
        Loaded(s, parsed) ==
            IF ~parsed.ok THEN DimsRaw(s)
            ELSE IF parsed.val.t # "list" THEN DimsRaw(s)
            ELSE Dicts(s, SelectSeq(parsed.val.v, IsDict))
        Stripped(s) ==
            IF s = <<>> \/ lower(s) = Str_nan THEN None ELSE Loaded(s, json_loads(s))
    IN IF ~Truthy(raw) THEN None ELSE Stripped(strip(Val(raw)))

\* Inputs: JSON texts of dimension lists.
MaxValLen == 3

ValChars == {"2", "5", ".", "-", " ", "a"}

Quoted(chars) == <<"\"">> \o chars \o <<"\"">>

ValueTexts ==
    {Quoted(v) : v \in SeqsUpTo(ValChars, MaxValLen)}
    \cup { Quoted(<<"2", "4">>), Quoted(<<"2", "4", ".", "5">>), Quoted(Str_nan),
           Quoted(<<"I", "n", "f">>), <<"2", "4">>, <<"2", "4", ".", "5">>,
           <<"-", "2", ".", "5">>, <<"n", "u", "l", "l">>, <<"t", "r", "u", "e">>,
           <<"[", "1", "]">> }

UnitTexts ==
    { Quoted(Str_cm), Quoted(<<"C", "M">>),
      Quoted(<<"C", "e", "n", "t", "i", "m", "e", "t", "e", "r", "s">>),
      Quoted(Str_centimetres), Quoted(<<"i", "n">>), Quoted(<<>>),
      <<"n", "u", "l", "l">>, <<"5">> }

Member(key, text) == Quoted(key) \o <<":">> \o text

ObjTexts(values, units) ==
    {<<"{">> \o Member(Str_value, v) \o <<",">> \o Member(Str_unit, u) \o <<"}">> :
        v \in values, u \in units}
    \cup {<<"{">> \o Member(Str_value, v) \o <<"}">> : v \in values}
    \cup {<<"{">> \o Member(Str_unit, u) \o <<"}">> : u \in units}

SmallObjTexts ==
    ObjTexts({Quoted(<<"2", "4">>), Quoted(<<"2", ".", "5">>), Quoted(<<"a">>)},
             {Quoted(<<"C", "M">>), <<"5">>})

DimensionTexts ==
    { <<>>, <<" ">>, Str_nan, <<"N", "a", "N">>, <<"2", "4">>, <<"a">>,
      <<"[", "]">>, <<"[", "1", "]">>, <<"{", "}">>, <<"[", "{", "}", "]">> }
    \cup {<<"[">> \o o \o <<"]">> : o \in ObjTexts(ValueTexts, UnitTexts)}
    \cup {<<" ", "[">> \o o1 \o <<",", " ">> \o o2 \o <<"]">> :
            o1 \in SmallObjTexts, o2 \in SmallObjTexts}
    \cup {<<"[", "1", ",">> \o o \o <<"]">> : o \in SmallObjTexts}

InitDims ==
    /\ dimensions_raw \in {None} \cup {Some(t) : t \in DimensionTexts}
    /\ dims = Idle
    /\ p = Idle /\ outcome = Idle /\ value = Idle /\ first_item = Idle
    /\ existing_editor_note = Idle /\ payload = Idle
    /\ args = Idle /\ catalog = Idle /\ df = Idle /\ idx = 0 /\ pc = "idle"
    /\ generated_count = 0 /\ saved = Idle /\ calls = Idle /\ exc = Idle /\ error = Idle

ParseDimensions ==
    /\ dims = Idle
    /\ dims' = <<parse_dimensions_list_dimension(dimensions_raw)>>
    /\ UNCHANGED <<dimensions_raw, p, outcome, value, first_item, existing_editor_note, payload, mainVars>>

NextDims == ParseDimensions

SpecDims == InitDims /\ [][NextDims]_vars

\* The dict-shaped elements of the decoded input list.
DimElems(raw) == SelectSeq(json_loads(strip(Val(raw))).val.v, IsDict)

ReturnedList == dims # Idle /\ ~IsNone(dims[1]) /\ Val(dims[1]).t = "list"

\* The value the claim asks for: an integer for a whole number, the float
\* itself for any other number, the raw value otherwise.
ClaimedValue(val) ==
    LET f == float_of(val)
    IN IF IsNone(f) THEN val
       ELSE IF Val(f).special = "finite" /\ Val(f).n % Val(f).d = 0
       THEN JInt(Val(f).n \div Val(f).d)
       ELSE JFloat(Val(f))

SameJson(a, b) == a.t = b.t /\ a.v = b.v

\* C5: every dict element's value becomes an integer only when it is a whole
\* number, a float when it is numeric but not whole (never truncated), and
\* stays raw when it is not numeric; the unit is lower-cased with
\* "centimeters"/"centimetres" replaced by "cm".
C5_DimensionCoercion ==
    ReturnedList =>
        \A i \in 1..Len(Val(dims[1]).v) :
            LET d == DimElems(dimensions_raw)[i]
                o == Val(dims[1]).v[i]
            IN /\ SameJson(o.value, ClaimedValue(dict_get(d, Str_value)))
               /\ o.unit = (IF JTruthy(dict_get(d, Str_unit))
                            THEN replace(replace(lower(dict_get(d, Str_unit).v),
                                         Str_centimeters, Str_cm), Str_centimetres, Str_cm)
                            ELSE <<>>)

--------------------------------------------------------------------------
(* build_payload_from_product *)

EmptyMap == <<>>

\* A mapping with the entry k -> v when cond holds, and no entry otherwise.
Entry(cond, k, v) == IF cond THEN k :> v ELSE EmptyMap

\* (q.get(name) or {}).get(inner) for an Optional record field.
Get(o, inner) == IF IsNone(o) THEN None ELSE Val(o)[inner]

\* `o or []`
OrEmptyList(o) == IF IsNone(o) THEN <<>> ELSE Val(o)

RECURSIVE Flatten(_)
Flatten(lists) == IF lists = <<>> THEN <<>> ELSE Head(lists) \o Flatten(Tail(lists))

\* The (key, value) fields of the referenced sub-records, in iteration order,
\* without those whose value is falsy (`if not v: continue`).
TruthyFields(nodes) ==
    SelectSeq(Flatten([i \in 1..Len(nodes) |-> OrEmptyList(nodes[i].fields)]),
              LAMBDA f : Truthy(f.value))

\* [v for each field whose key is in keys]
ValuesOf(fields, keys) ==
    LET hits == SelectSeq(fields, LAMBDA f : f.key \in keys)
    IN [i \in 1..Len(hits) |-> Val(hits[i].value)]

\* The duplicates are kept.
dict_fromkeys_keep_duplicates(xs) == xs

\* list(dict.fromkeys(xs)): a key keeps the place of its first insertion.
RECURSIVE DictFromKeys(_, _)
DictFromKeys(xs, acc) ==
    IF xs = <<>> THEN acc
    ELSE IF \E i \in 1..Len(acc) : acc[i] = Head(xs) THEN DictFromKeys(Tail(xs), acc)
    ELSE DictFromKeys(Tail(xs), Append(acc, Head(xs)))

dict_fromkeys(xs) == DictFromKeys(xs, <<>>)

\* sep.join(xs)
RECURSIVE join(_, _)
join(sep, xs) ==
    IF xs = <<>> THEN <<>>
    ELSE IF Len(xs) = 1 THEN xs[1]
    ELSE xs[1] \o sep \o join(sep, Tail(xs))

Str_sep == <<" ", "|", " ">>

COLOUR_CATEGORY_KEYS ==
    {"blue", "pink_purple", "red", "orange_yellow", "green", "black_grey", "brown",
     "natural_white"}
MATERIAL_CATEGORY_KEYS == {"calfskin", "goatskin", "buffalo", "exotic_skins", "canvas", "other"}

\* specs["bag_size_cm"]: the raw value is present and int(float(.)) succeeds.
bag_size_cm(raw) ==
    LET Truncated(f) == IF IsNone(f) THEN None ELSE int_of_float(Val(f))
    IN IF IsNone(raw) \/ Val(raw) \in {<<>>, Str_nan, <<"N", "a", "N">>} THEN None
       ELSE Truncated(float_of_str(Val(raw)))

ColourNodes(q) == OrEmptyList(Get(Get(q.hermes_colour, "references"), "nodes"))
MaterialNodes(q) == OrEmptyList(Get(Get(q.hermes_material, "references"), "nodes"))

\* The value of the last truthy hardware_description field.
hardware_description(q) ==
    LET Last(hits) ==
            IF IsNone(Get(q.hermes_hardware, "reference")) \/ hits = <<>> THEN <<>>
            ELSE hits[Len(hits)]
    IN Last(ValuesOf(TruthyFields(<<[fields |-> Get(Get(q.hermes_hardware, "reference"),
                                                    "fields")]>>),
                     {"hardware_description"}))

specifications(q) ==
    LET specs(bag_style_val, bag_size_val, condition_val, dims_val,
              colour_categories, colour_codes, material_categories) ==
       Entry(Truthy(bag_style_val), "bag_style", bag_style_val)
       @@ Entry(~IsNone(bag_size_val), "bag_size_cm", bag_size_val)
       @@ Entry(Truthy(condition_val), "condition", condition_val)
       @@ ("stamp" :> MetaValue(q.stamp))
       @@ ("receipt" :> MetaValue(q.receipt))
       @@ ("accessories" :> MetaValue(q.accessories))
       @@ ("hardware" :> MetaValue(q.hardware))
       @@ Entry(~IsNone(dims_val), "dimensions", dims_val)
       @@ Entry(colour_categories # <<>>, "hermes_colour",
                Some(join(Str_sep, dict_fromkeys(colour_categories))))
       @@ Entry(colour_codes # <<>>, "hermes_colour_code",
                Some(join(Str_sep, dict_fromkeys(colour_codes))))
       @@ Entry(material_categories # <<>>, "hermes_material",
                Some(join(Str_sep, dict_fromkeys(material_categories))))
    IN specs(parse_listish_string(MetaValue(q.bag_style)),
             bag_size_cm(MetaValue(q.bag_size)),
             parse_listish_string(MetaValue(q.condition)),
             parse_dimensions_list_dimension(MetaValue(q.dimensions)),
             ValuesOf(TruthyFields(ColourNodes(q)), COLOUR_CATEGORY_KEYS),
             ValuesOf(TruthyFields(ColourNodes(q)), {"colour_code"}),
             ValuesOf(TruthyFields(MaterialNodes(q)), MATERIAL_CATEGORY_KEYS))

puzzle_description(q) ==
    LET puzzle(ssd_val, hc_val, material_descriptions_array, colour_descriptions_array,
               hardware_description_val) ==
       Entry(Truthy(ssd_val), "style_size_description", ssd_val)
       @@ Entry(Truthy(hc_val), "construction_description", hc_val)
       @@ Entry(material_descriptions_array # <<>>, "material_descriptions",
                material_descriptions_array)
       @@ Entry(colour_descriptions_array # <<>>, "colour_descriptions",
                colour_descriptions_array)
       @@ Entry(hardware_description_val # <<>>, "hardware_description",
                Some(hardware_description_val))
    IN puzzle(Get(Get(Get(q.size_style_description, "reference"),
                      "style_size_descritpion"), "value"),
              Get(Get(Get(q.hermes_construction, "reference"),
                      "construction_description"), "value"),
              ValuesOf(TruthyFields(MaterialNodes(q)), {"material_description"}),
              ValuesOf(TruthyFields(ColourNodes(q)), {"colour_description"}),
              hardware_description(q))

build_payload_from_product(q, note) ==
    [product |-> [id |-> q.id, title |-> q.title, vendor |-> q.vendor, handle |-> q.handle],
     structured |->
        ("specifications" :> specifications(q))
        @@ ("puzzle_description" :> puzzle_description(q))
        @@ Entry(Truthy(note), "editor_note", note)]

\* Inputs of the extractor.
MaxNodes == 3

Str_Black == <<"B", "l", "a", "c", "k">>
Str_Grey == <<"G", "r", "e", "y">>
Str_Togo == <<"T", "o", "g", "o">>
Str_Epsom == <<"E", "p", "s", "o", "m">>
Str_89 == <<"8", "9">>
Str_CK == <<"C", "K">>
Str_deep == <<"d", "e", "e", "p">>
Str_Yes == <<"Y", "e", "s">>
Str_dims24 ==
    <<"[", "{">> \o Member(Str_value, Quoted(<<"2", "4">>)) \o <<",">>
    \o Member(Str_unit, Quoted(<<"C", "e", "n", "t", "i", "m", "e", "t", "e", "r", "s">>))
    \o <<"}", "]">>

\* A metafield with a value; a field of a referenced sub-record; a sub-record.
MF(v) == Some([value |-> v])
Field(k, v) == [key |-> k, value |-> v]
Node(fields) == [fields |-> Some(fields)]
Refs(nodes) == Some([references |-> Some([nodes |-> Some(nodes)])])

BaseProduct ==
    [id |-> "gid://shopify/Product/1", title |-> "Birkin 30", vendor |-> "Hermes",
     handle |-> "birkin-30", descriptionHtml |-> None,
     bag_style |-> None, bag_size |-> None, condition |-> None, receipt |-> None,
     accessories |-> None, stamp |-> None, hardware |-> None, dimensions |-> None,
     hermes_colour |-> None, hermes_material |-> None, hermes_hardware |-> None,
     size_style_description |-> None, hermes_construction |-> None]

BagStyleMeta ==
    { None, MF(None), MF(Some(<<>>)), MF(Some(<<" ">>)), MF(Some(Str_nan)),
      MF(Some(<<" ", "N", "a", "N", " ">>)), MF(Some(Str_Birkin)),
      MF(Some(<<"[">> \o Quoted(Str_Birkin) \o <<"]">>)), MF(Some(<<"[", "]">>)) }

BagSizeMeta ==
    { None, MF(None), MF(Some(<<>>)), MF(Some(<<" ">>)), MF(Some(Str_nan)),
      MF(Some(<<"N", "a", "N">>)), MF(Some(<<" ", "n", "a", "n">>)),
      MF(Some(<<"N", "A", "N">>)), MF(Some(<<"3", "0">>)),
      MF(Some(<<"3", "5", ".", "5">>)), MF(Some(<<"a">>)) }

ConditionMeta == { None, MF(Some(Str_nan)), MF(Some(<<"[">> \o Quoted(<<"a">>) \o <<"]">>)) }

DimensionsMeta ==
    { None, MF(None), MF(Some(<<>>)), MF(Some(<<" ">>)), MF(Some(<<"N", "a", "N">>)),
      MF(Some(Str_dims24)), MF(Some(<<"a">>)) }

StampMeta == { None, MF(None), MF(Some(<<>>)), MF(Some(Str_nan)), MF(Some(Str_Yes)) }

ScalarProducts ==
    {[BaseProduct EXCEPT !.bag_style = a, !.bag_size = b, !.condition = c,
                         !.dimensions = d, !.stamp = e, !.receipt = f,
                         !.accessories = f, !.hardware = MF(Some(Str_nan))] :
        a \in BagStyleMeta, b \in BagSizeMeta, c \in ConditionMeta,
        d \in DimensionsMeta, e \in StampMeta, f \in {None, MF(Some(Str_Yes))}}

ColourNodeSet ==
    { [fields |-> None], Node(<<>>),
      Node(<<Field("black_grey", Some(Str_Black))>>),
      Node(<<Field("black_grey", Some(Str_Grey))>>),
      Node(<<Field("blue", Some(Str_Black))>>),
      Node(<<Field("black_grey", Some(<<>>))>>),
      Node(<<Field("blue", None)>>),
      Node(<<Field("black_grey", Some(Str_nan))>>),
      Node(<<Field("colour_code", Some(Str_89))>>),
      Node(<<Field("colour_code", Some(Str_CK))>>),
      Node(<<Field("colour_description", Some(Str_deep))>>),
      Node(<<Field("calfskin", Some(Str_Black))>>),
      Node(<<Field("black_grey", Some(Str_Grey)), Field("blue", Some(Str_Black))>>),
      Node(<<Field("colour_code", Some(Str_89)), Field("black_grey", Some(Str_Black))>>) }

MaterialNodeSet ==
    { [fields |-> None],
      Node(<<Field("calfskin", Some(Str_Togo))>>),
      Node(<<Field("calfskin", Some(Str_Epsom))>>),
      Node(<<Field("other", Some(Str_Togo))>>),
      Node(<<Field("goatskin", Some(<<>>))>>),
      Node(<<Field("material_description", Some(Str_deep))>>),
      Node(<<Field("colour_code", Some(Str_89))>>),
      Node(<<Field("canvas", Some(Str_Epsom)), Field("calfskin", Some(Str_Togo))>>) }

ProcessedBase == [BaseProduct EXCEPT !.bag_style = MF(Some(Str_Birkin))]

ColourProducts ==
    {[ProcessedBase EXCEPT !.hermes_colour = c] :
        c \in {Some([references |-> None]), Some([references |-> Some([nodes |-> None])])}
              \cup {Refs(ns) : ns \in SeqsUpTo(ColourNodeSet, MaxNodes)}}

MaterialProducts ==
    {[ProcessedBase EXCEPT !.hermes_material = c] :
        c \in {Refs(ns) : ns \in SeqsUpTo(MaterialNodeSet, MaxNodes)}}

SingleRefs(name) ==
    { None, Some([reference |-> None]),
      Some([reference |-> Some(name :> None)]),
      Some([reference |-> Some(name :> Some([value |-> None]))]),
      Some([reference |-> Some(name :> Some([value |-> Some(Str_deep)]))]) }

HardwareRefs ==
    { None, Some([reference |-> None]),
      Some([reference |-> Some([fields |-> None])]),
      Some([reference |-> Some([fields |->
          Some(<<Field("hardware_description", Some(Str_deep)),
                 Field("hardware_description", Some(<<>>)),
                 Field("name", Some(Str_Togo))>>)])]) }

PuzzleProducts ==
    {[ProcessedBase EXCEPT !.hermes_hardware = h, !.size_style_description = ssd,
                           !.hermes_construction = hc] :
        h \in HardwareRefs, ssd \in SingleRefs("style_size_descritpion"),
        hc \in SingleRefs("construction_description")}

EditorNotes == {None, Some(<<>>), Some(<<"<p>", "bag", "</p>">>)}

InitPayload ==
    /\ \/ p \in ScalarProducts /\ existing_editor_note = None
       \/ p \in ColourProducts /\ existing_editor_note = None
       \/ p \in MaterialProducts /\ existing_editor_note = None
       \/ p \in PuzzleProducts /\ existing_editor_note \in EditorNotes
    /\ payload = Idle
    /\ outcome = Idle /\ value = Idle /\ first_item = Idle
    /\ dimensions_raw = Idle /\ dims = Idle
    /\ args = Idle /\ catalog = Idle /\ df = Idle /\ idx = 0 /\ pc = "idle"
    /\ generated_count = 0 /\ saved = Idle /\ calls = Idle /\ exc = Idle /\ error = Idle

BuildPayload ==
    /\ payload = Idle
    /\ payload' = build_payload_from_product(p, existing_editor_note)
    /\ UNCHANGED <<p, existing_editor_note, outcome, value, first_item,
                   dimensions_raw, dims, mainVars>>

NextPayload == BuildPayload

SpecPayload == InitPayload /\ [][NextPayload]_vars

Specs == payload.structured["specifications"]

\* The source value of a scalar attribute is absent, empty or the
\* not-a-number token ("nan" in any case, surrounding whitespace ignored).
SourceMissing(mf) ==
    \/ IsNone(MetaValue(mf))
    \/ strip(Val(MetaValue(mf))) = <<>>
    \/ lower(strip(Val(MetaValue(mf)))) = Str_nan

\* Some referenced sub-record has a truthy value under one of the keys.
HasTruthyField(nodes, keys) ==
    \E i \in 1..Len(nodes) :
        /\ ~IsNone(nodes[i].fields)
        /\ \E j \in 1..Len(Val(nodes[i].fields)) :
              /\ Val(nodes[i].fields)[j].key \in keys
              /\ Truthy(Val(nodes[i].fields)[j].value)

ConditionalKeys ==
    {"bag_style", "bag_size_cm", "condition", "dimensions", "hermes_colour",
     "hermes_colour_code", "hermes_material"}
AlwaysKeys == {"stamp", "receipt", "accessories", "hardware"}

FirstOccurrences(xs) ==
    LET marked == [i \in 1..Len(xs) |->
                     IF \E j \in 1..(i - 1) : xs[j] = xs[i] THEN <<>> ELSE <<xs[i]>>]
    IN Flatten(marked)

\* The expected joined string of a key, None when there is no truthy value.
JoinedFirstSeen(nodes, keys) ==
    LET vals == ValuesOf(TruthyFields(nodes), keys)
    IN IF vals = <<>> THEN None ELSE Some(join(Str_sep, FirstOccurrences(vals)))

SpecsGet(k) == IF k \in DOMAIN Specs THEN Specs[k] ELSE None

\* C7: each joined category string lists every distinct truthy value once, in
\* the order of its first occurrence in sub-record/field order, separated by
\* " | ".
C7_JoinedFirstSeenOrder ==
    payload # Idle =>
        /\ SpecsGet("hermes_colour") = JoinedFirstSeen(ColourNodes(p), COLOUR_CATEGORY_KEYS)
        /\ SpecsGet("hermes_colour_code") = JoinedFirstSeen(ColourNodes(p), {"colour_code"})
        /\ SpecsGet("hermes_material") = JoinedFirstSeen(MaterialNodes(p), MATERIAL_CATEGORY_KEYS)

C7_Witness ==
    /\ payload # Idle
    /\ ColourNodes(p) = << Node(<<Field("black_grey", Some(Str_Black))>>),
                           Node(<<Field("black_grey", Some(Str_Grey))>>),
                           Node(<<Field("blue", Some(Str_Black))>>) >>
    /\ Specs["hermes_colour"] = Some(Str_Black \o <<" ", "|", " ">> \o Str_Grey)

--------------------------------------------------------------------------
(* normalize_product_id *)

Str_gid == <<"g", "i", "d", ":", "/", "/">>
Str_gid_product ==
    Str_gid \o <<"s", "h", "o", "p", "i", "f", "y", "/", "P", "r", "o", "d", "u", "c", "t", "/">>

\* re.sub(r"\.0$", "", s)
strip_dot_zero(s) == IF endswith(s, <<".", "0">>) THEN SubSeq(s, 1, Len(s) - 2) ELSE s

\* re.fullmatch(r"\d+", s)
all_digits(s) == s # <<>> /\ \A i \in 1..Len(s) : s[i] \in Digits

\* raw_id is the cell's str(), or None.
normalize_product_id(raw_id) ==
    IF IsNone(raw_id) THEN None
    ELSE LET s == strip(Val(raw_id))
         IN IF s = <<>> \/ lower(s) = Str_nan THEN None
            ELSE IF startswith(s, Str_gid) THEN Some(s)
            ELSE IF all_digits(strip_dot_zero(s)) THEN Some(Str_gid_product \o strip_dot_zero(s))
            ELSE Some(s)

--------------------------------------------------------------------------
(* main: the row loop *)

Exception(type, msg, keys) == [type |-> type, msg |-> msg, keys |-> keys, context |-> <<>>]

\* An exception raised while handling another one (__context__).
During(e, handled) == [e EXCEPT !.context = <<handled.msg, handled.keys>>]

UnsupportedOutput == Exception("ValueError", "Unsupported output type. Use .csv or .xlsx", <<>>)

\* A cell of the status column: "GENERATED", or "SKIPPED: ..." / "FAILED: ..."
\* with the message and the numbers or keys the message quotes.
Status(kind, msg, info) == [kind |-> kind, msg |-> msg, info |-> info]
NoStatus == Status("", "", <<>>)
NoException == Exception("", "", <<>>)

\* The value of the write column before the run, and what the service returns.
OrigBody == <<"<p>", "bag", "</p>">>
NewBody == <<"<p>", "style", "</p>">>

Row(id) == [ID |-> id, body |-> OrigBody, status |-> NoStatus]

\* What the collaborators answer for one row.
FetchError == [kind |-> "error", product |-> ""]
FetchNone == [kind |-> "none", product |-> ""]
FetchProduct(handle) == [kind |-> "product", product |-> handle]

\* The products of the shop, by handle.
ShopProduct(handle) == IF handle = "birkin" THEN ProcessedBase ELSE BaseProduct

WebhookHttpError == [kind |-> "http_error", keys |-> <<>>, description_html |-> None]
WebhookNonObject == [kind |-> "non_object", keys |-> <<>>, description_html |-> None]
WebhookObject(keys, html) == [kind |-> "object", keys |-> keys, description_html |-> html]

Scenario(id, fetch, webhook) == [ID |-> id, fetch |-> fetch, webhook |-> webhook]

Str_id_float == <<"7", ".", "0">>

Scenarios ==
    { Scenario(Some(Str_nan), FetchNone, WebhookHttpError),
      Scenario(Some(Str_id_float), FetchError, WebhookHttpError),
      Scenario(Some(<<"a">>), FetchNone, WebhookHttpError),
      Scenario(Some(Str_gid \o <<"7">>), FetchProduct("unstyled"), WebhookHttpError),
      Scenario(Some(Str_id_float), FetchProduct("birkin"), WebhookHttpError),
      Scenario(Some(Str_id_float), FetchProduct("birkin"), WebhookNonObject),
      Scenario(Some(Str_id_float), FetchProduct("birkin"),
               WebhookObject(<<"error", "detail">>, None)),
      Scenario(Some(Str_id_float), FetchProduct("birkin"),
               WebhookObject(<<"description_html">>, Some(<<>>))),
      Scenario(Some(<<"7">>), FetchProduct("birkin"),
               WebhookObject(<<"description_html", "model">>, Some(NewBody))) }

MaxRows == 3

Args(start_row, limit, save_every, sleep, out_ok) ==
    [start_row |-> start_row, limit |-> limit, save_every |-> save_every,
     sleep |-> sleep, out_ok |-> out_ok]

\* The command lines: the defaults, and each option changed.  out_ok says
\* whether the output path ends in .csv, .xlsx or .xls.
ArgsSet ==
    { Args(0, None, 2, 0, TRUE), Args(1, None, 2, 0, TRUE), Args(0, Some(1), 2, 0, TRUE),
      Args(1, Some(1), 2, 0, TRUE), Args(0, Some(0), 2, 0, TRUE),
      Args(0, None, 0, 0, TRUE), Args(0, None, 1, 0, TRUE), Args(0, None, 2, 1, TRUE),
      Args(0, None, 2, -1, TRUE), Args(0, None, 2, 0, FALSE), Args(0, None, 1, 0, FALSE) }

InitMain ==
    /\ args \in ArgsSet
    /\ catalog \in SeqsUpTo(Scenarios, MaxRows)
    /\ df = [i \in 1..Len(catalog) |-> Row(catalog[i].ID)]
    /\ idx = args.start_row
    /\ pc = "loop"
    /\ generated_count = 0
    /\ saved = None
    /\ calls = [i \in 1..Len(catalog) |-> [fetch |-> 0, webhook |-> 0]]
    /\ exc = NoException
    /\ error = None
    /\ p = Idle /\ outcome = Idle /\ value = Idle /\ first_item = Idle
    /\ dimensions_raw = Idle /\ dims = Idle
    /\ existing_editor_note = Idle /\ payload = Idle

otherVars == <<p, outcome, value, first_item, dimensions_raw, dims, existing_editor_note>>
nonMainVars == <<otherVars, payload>>

\* The row the loop is at (idx is 0-based).
cur == idx + 1

SetStatus(table, i, st) == [table EXCEPT ![i].status = st]

\* Lines 466-473: the loop head, the limit, and the ID check.
LoopHead ==
    /\ pc = "loop"
    /\ IF idx >= Len(df) \/ (~IsNone(args.limit) /\ idx - args.start_row >= Val(args.limit))
       THEN /\ pc' = "final_save"
            /\ UNCHANGED <<df, idx>>
       ELSE IF ~Truthy(normalize_product_id(df[cur].ID))
       THEN /\ df' = SetStatus(df, cur, Status("SKIPPED", "invalid ID", <<>>))
            /\ idx' = idx + 1
            /\ pc' = "loop"
       ELSE /\ pc' = "fetch"
            /\ UNCHANGED <<df, idx>>
    /\ UNCHANGED <<args, catalog, generated_count, saved, calls, exc, error, nonMainVars>>

\* Lines 476-488: fetch the product and classify it.
FetchAndClassify ==
    /\ pc = "fetch"
    /\ calls' = [calls EXCEPT ![cur].fetch = @ + 1]
    /\ LET answer == catalog[cur].fetch
           result == should_process_product(ShopProduct(answer.product))
       IN IF answer.kind = "error"
          THEN /\ exc' = Exception("RuntimeError", "Shopify GraphQL HTTP", <<>>)
               /\ pc' = "except"
               /\ UNCHANGED <<df, idx>>
          ELSE IF answer.kind = "none"
          THEN /\ df' = SetStatus(df, cur, Status("SKIPPED", "product not found", <<>>))
               /\ idx' = idx + 1
               /\ pc' = "loop"
               /\ UNCHANGED exc
          ELSE IF ~result.should_process
          THEN /\ df' = SetStatus(df, cur, Status("SKIPPED", result.reason.msg, result.reason.metrics))
               /\ idx' = idx + 1
               /\ pc' = "loop"
               /\ UNCHANGED exc
          ELSE /\ pc' = "webhook"
               /\ UNCHANGED <<df, idx, exc>>
    /\ UNCHANGED <<args, catalog, generated_count, saved, error, nonMainVars>>

\* A response without the markup field is taken as "nothing to do": the row
\* is marked skipped and the loop goes on.
CallWebhook_swallow ==
    /\ pc = "webhook"
    /\ calls' = [calls EXCEPT ![cur].webhook = @ + 1]
    /\ payload' = build_payload_from_product(
                      ShopProduct(catalog[cur].fetch.product),
                      should_process_product(
                          ShopProduct(catalog[cur].fetch.product)).existing_editor_note)
    /\ LET resp == catalog[cur].webhook
       IN IF resp.kind # "object"
          THEN /\ exc' = Exception("RuntimeError", "Webhook HTTP", <<>>)
               /\ pc' = "except"
               /\ UNCHANGED <<df, idx>>
          ELSE IF ~Truthy(resp.description_html)
          THEN /\ df' = SetStatus(df, cur, Status("SKIPPED", "no description returned", <<>>))
               /\ idx' = idx + 1
               /\ pc' = "loop"
               /\ UNCHANGED exc
          ELSE /\ pc' = "write"
               /\ UNCHANGED <<df, idx, exc>>
    /\ UNCHANGED <<args, catalog, generated_count, saved, error, otherVars>>

\* Lines 490-495: build the payload, call the webhook, check the markup field.
CallWebhook ==
    /\ pc = "webhook"
    /\ calls' = [calls EXCEPT ![cur].webhook = @ + 1]
    /\ payload' = build_payload_from_product(
                      ShopProduct(catalog[cur].fetch.product),
                      should_process_product(
                          ShopProduct(catalog[cur].fetch.product)).existing_editor_note)
    /\ LET resp == catalog[cur].webhook
       IN IF resp.kind = "http_error"
          THEN /\ exc' = Exception("RuntimeError", "Webhook HTTP", <<>>)
               /\ pc' = "except"
          ELSE IF resp.kind = "non_object"
          THEN /\ exc' = Exception("RuntimeError", "Webhook returned non-object JSON.", <<>>)
               /\ pc' = "except"
          ELSE IF ~Truthy(resp.description_html)
          THEN /\ exc' = Exception("RuntimeError", "Webhook missing description_html",
                                   resp.keys)
               /\ pc' = "except"
          ELSE /\ pc' = "write"
               /\ UNCHANGED exc
    /\ UNCHANGED <<args, catalog, df, idx, generated_count, saved, error, otherVars>>

\* Lines 498-501: overwrite the write column and mark the row GENERATED.
WriteRow ==
    /\ pc = "write"
    /\ df' = [df EXCEPT ![cur].body = Val(catalog[cur].webhook.description_html),
                        ![cur].status = Status("GENERATED", "", <<>>)]
    /\ generated_count' = generated_count + 1
    /\ pc' = "after_write"
    /\ UNCHANGED <<args, catalog, idx, saved, calls, exc, error, nonMainVars>>

\* Lines 503-507: the sleep between products and the periodic save, both
\* still inside the try block.
AfterWrite ==
    /\ pc = "after_write"
    /\ IF args.sleep < 0
       THEN /\ exc' = Exception("ValueError", "sleep length must be non-negative", <<>>)
            /\ pc' = "except"
            /\ UNCHANGED <<saved, idx>>
       ELSE IF args.save_every > 0 /\ generated_count % args.save_every = 0
       THEN IF args.out_ok
            THEN /\ saved' = Some(df)
                 /\ idx' = idx + 1
                 /\ pc' = "loop"
                 /\ UNCHANGED exc
            ELSE /\ exc' = UnsupportedOutput
                 /\ pc' = "except"
                 /\ UNCHANGED <<saved, idx>>
       ELSE /\ idx' = idx + 1
            /\ pc' = "loop"
            /\ UNCHANGED <<saved, exc>>
    /\ UNCHANGED <<args, catalog, df, generated_count, calls, error, nonMainVars>>

\* Lines 509-512: record the failure, save the table, re-raise.
HandleException ==
    /\ pc = "except"
    /\ df' = SetStatus(df, cur, Status("FAILED", exc.msg, exc.keys))
    /\ IF args.out_ok
       THEN /\ saved' = Some(df')
            /\ error' = Some(exc)
       ELSE /\ error' = Some(During(UnsupportedOutput, exc))
            /\ UNCHANGED saved
    /\ pc' = "raised"
    /\ UNCHANGED <<args, catalog, idx, generated_count, calls, exc, nonMainVars>>

\* Lines 514-515: the save after the loop.
FinalSave ==
    /\ pc = "final_save"
    /\ IF args.out_ok
       THEN /\ saved' = Some(df)
            /\ pc' = "done"
            /\ UNCHANGED error
       ELSE /\ error' = Some(UnsupportedOutput)
            /\ pc' = "raised"
            /\ UNCHANGED saved
    /\ UNCHANGED <<args, catalog, df, idx, generated_count, calls, exc, nonMainVars>>

NextMain ==
    \/ LoopHead
    \/ FetchAndClassify
    \/ CallWebhook
    \/ WriteRow
    \/ AfterWrite
    \/ HandleException
    \/ FinalSave

SpecMain == InitMain /\ [][NextMain]_vars

\* The webhook has answered for row i (1-based), and the answer is an object
\* whose description_html is absent or empty.
Answered(i) == calls[i].webhook > 0
MissingMarkup(i) ==
    /\ catalog[i].webhook.kind = "object"
    /\ ~Truthy(catalog[i].webhook.description_html)

MissingMarkupMsg == "Webhook missing description_html"

\* C8: once the generation service has answered a row without the markup
\* field, that row is never GENERATED and keeps its description, the webhook is
\* called for it exactly once, the loop never leaves the row, the error that
\* is raised and written to the status names the keys of the answer, and the
\* run ends with an exception leaving main (the error itself, or the error of
\* the save attempted while handling it).
C8_MissingMarkupFails ==
    \A i \in 1..Len(df) :
        (Answered(i) /\ MissingMarkup(i)) =>
            /\ calls[i].webhook = 1
            /\ df[i].status.kind # "GENERATED"
            /\ df[i].body = OrigBody
            /\ cur = i
            /\ pc \in {"except", "raised"}
            /\ exc = Exception("RuntimeError", MissingMarkupMsg, catalog[i].webhook.keys)
            /\ pc = "raised" =>
                  /\ df[i].status = Status("FAILED", MissingMarkupMsg, catalog[i].webhook.keys)
                  /\ ~IsNone(error)
                  /\ \/ Val(error) = exc
                     \/ Val(error).context = <<MissingMarkupMsg, catalog[i].webhook.keys>>

\* C8 witness: a run that stopped on a third row whose answer held only the
\* keys "error" and "detail", after an earlier row was generated.
C8_Witness ==
    /\ pc = "raised"
    /\ Len(df) = 3 /\ cur = 3
    /\ Answered(3) /\ MissingMarkup(3)
    /\ catalog[3].webhook.keys = <<"error", "detail">>
    /\ df[3].status = Status("FAILED", MissingMarkupMsg, <<"error", "detail">>)
    /\ df[1].status.kind = "GENERATED"
    /\ Val(error) = exc

\* Row i (1-based) lies outside the window given by --start-row and --limit.
OutsideWindow(i) ==
    \/ i - 1 < args.start_row
    \/ ~IsNone(args.limit) /\ i - 1 >= args.start_row + Val(args.limit)

\* C9: at the end of a run, every row whose status is SKIPPED or FAILED, and
\* every row outside the processed window, holds its original description.
C9_SkippedFailedKeepDescription ==
    pc \in {"done", "raised"} =>
        \A i \in 1..Len(df) :
            (df[i].status.kind \in {"SKIPPED", "FAILED"} \/ OutsideWindow(i)) =>
                df[i].body = OrigBody

\* The failures the row handler is said to save: a catalog fetch error, a
\* webhook HTTP error, a missing markup field.
RowFailures == {"Shopify GraphQL HTTP", "Webhook HTTP", MissingMarkupMsg}

\* C10: when the run has stopped on one of these failures, the failing row is
\* FAILED, the output file holds the table as it then is, and no later row
\* was fetched, sent or modified.
C10_FailureSavedBeforeStop ==
    (pc = "raised" /\ exc.msg \in RowFailures) =>
        /\ df[cur].status.kind = "FAILED"
        /\ saved = Some(df)
        /\ \A j \in (cur + 1)..Len(df) :
              /\ calls[j] = [fetch |-> 0, webhook |-> 0]
              /\ df[j] = Row(catalog[j].ID)

==========================================================================
